---- MODULE Spec2Model ----
(***************************************************************************)
(* Model of evals/eval_tools.py: the conditional sampler p_of_x_given_y,   *)
(* the thread pool and the as_completed iterator it drives, the trial      *)
(* runner run_gemini_cli as seen by the sampler, get_json_path_value,      *)
(* main's loop over the tests with its aggregator, and _format_row_data.   *)
(*                                                                         *)
(* The orchestrating thread is modelled by pc; the pool's worker threads   *)
(* are modelled by the place each one has reached in its loop and by the   *)
(* state of the futures.  ThreadPoolExecutor, Future and as_completed are  *)
(* those of the Python standard library the source runs on (3.12 or        *)
(* later: line 371 does not parse before); their steps are modelled at the *)
(* granularity of the lock each one takes.                                 *)
(*                                                                         *)
(* Spec is one call of the sampler, ClassifySpec one call over a wider set *)
(* of summaries, MainSpec main calling the sampler test after test,        *)
(* FoldSpec the fold of lines 376-385 as a function of given results, and  *)
(* EstimateSpec _format_row_data over given arguments.                     *)
(***************************************************************************)
EXTENDS Integers, Sequences, FiniteSets, TLC

\* Bounds of the model: the arguments of p_of_x_given_y are drawn up to these.
MaxRunsBound == 3
MaxTargetBound == 2
MaxWorkersBound == 2
MaxLoadBound == 5

VARIABLES
  max_runs,               \* argument max_runs
  y_occurrences_target,   \* argument y_occurrences_target
  max_workers,            \* argument max_workers
  pc,                     \* position of the orchestrating thread
  how,                    \* how the consuming loop was left
  fstate,                 \* futures[i]._state, in submission order
  result,                 \* what futures[i] holds: kept while the loop can read it
  threads,                \* worker threads the executor has spawned
  idle,                   \* value of the executor's _idle_semaphore
  nextWork,               \* work items taken from the executor's queue so far,
                          \* plus one: the index of the head of the queue
  held,                   \* work items a worker has taken and not yet run
  seenEmpty,              \* workers whose get_nowait() has just raised Empty
  blocked,                \* workers waiting in work_queue.get(block=True)
  leaving,                \* workers that got None and have not yet put it back
  exited,                 \* workers that have left _worker
  fs,                     \* as_completed: the futures not yet yielded
  snapshot,               \* as_completed: futures found finished at its start
  waiterQ,                \* as_completed: waiter.finished_futures
  cancelIdx,              \* position of the loop "for f in futures"
  total_runs,
  y_occurrences,
  x_given_y_occurrences,
  pbar_n,                 \* tqdm's pbar.n
  ret,                    \* <<>> until the call returns, then <<dict>>
  finishOrder,            \* history: the trials finished and not yet yielded,
                          \* in the order they finished
  prompt,                 \* argument prompt
  prompts,                \* history: the prompt submitted with futures[i]
  invoked,                \* history: subprocess.run calls made for futures[i]
  mpc,                    \* position of main()
  test,                   \* main: number of tests of eval_groups begun (in
                          \* FoldSpec: of results folded)
  uuids,                  \* main: uuid4() values drawn for prompts so far
  leftover,               \* history: trials of earlier calls still queued or
                          \* running when a later call was entered
  results_by_group,       \* main: the aggregator
  successes,              \* _format_row_data: argument successes of the latest call
  total,                  \* _format_row_data: argument total of the latest call
  row,                    \* <<>> until _format_row_data returns, then <<tuple>>
  table,                  \* <<>> until print_results_table prints, then <<what>>
  inputs,                 \* the results given to the fold, one per test
  divisions               \* history: divisions _format_row_data has made

vars == <<max_runs, y_occurrences_target, max_workers, pc, how, fstate, result,
          threads, idle, nextWork, held, seenEmpty, blocked, leaving, exited, fs,
          snapshot, waiterQ, cancelIdx, total_runs,
          y_occurrences, x_given_y_occurrences, pbar_n, ret, finishOrder,
          prompt, prompts, invoked, mpc, test, uuids, leftover,
          results_by_group, successes, total, row, table, inputs, divisions>>

params == <<max_runs, y_occurrences_target, max_workers, prompt>>
trials == <<prompts, invoked>>
mainvars == <<mpc, test, uuids, leftover, results_by_group, successes, total,
              row, table, inputs, divisions>>
counters == <<total_runs, y_occurrences, x_given_y_occurrences>>
workers == <<held, seenEmpty, blocked, leaving, exited>>

----------------------------------------------------------------------------
\* JSON values found in a session summary: numbers, and values that are not
\* numbers (strings, null, objects), for which "> 0" raises TypeError.
Num(n) == [t |-> "num", n |-> n]
NonNum == [t |-> "str", n |-> 0]

\* The two JSONPath expressions of a test.
x_path == "x"
y_path == "y"

\* A summary document, seen through the two paths: for each path the list of
\* the values the expression matches in it (empty when it matches nothing).
Doc(ym, xm) == [p \in {x_path, y_path} |-> IF p = y_path THEN ym ELSE xm]

\* The summaries the trials of the model produce, one for each way lines 192-197
\* treat a summary that has a value at y_path: Y present with X zero, Y and X
\* present, Y present with a value at x_path that is not a number (Y is counted
\* at line 194 and line 196 raises), and a value at y_path that is not a number
\* (line 193 raises).  A summary in which y_path matches nothing is counted as
\* a trial that returned None is (lines 188-193); ClassifySpec classifies those,
\* and the other values at x_path, over WideDocs.
Docs ==
  { Doc(<<Num(1)>>, <<Num(0)>>),
    Doc(<<Num(1)>>, <<Num(1)>>),
    Doc(<<Num(1)>>, <<NonNum>>),
    Doc(<<NonNum>>, <<>>) }

\* What one trial (one call of run_gemini_cli in a worker) ends with.
Raised == [kind |-> "exception"]
ReturnedNone == [kind |-> "none"]
Returned(doc) == [kind |-> "doc", doc |-> doc]
NoResult == [kind |-> "unset"]
Outcomes == {Raised, ReturnedNone} \cup {Returned(d) : d \in Docs}

get_json_path_value(data, expression, default) ==
  LET matches == data[expression]
  IN  IF matches # <<>> THEN matches[1] ELSE default

\* "v > 0" of Python on a JSON value: defined on numbers only.
IsNumber(v) == v.t = "num"
AtLeastZero(v) == v.t = "num" /\ v.n >= 0

GreaterThanZero(v) == v.t = "num" /\ v.n > 0

----------------------------------------------------------------------------
Running == {i \in 1..Len(fstate) : fstate[i] = "RUNNING"}
QueueEmpty == nextWork > Len(fstate)

\* shutdown(wait=True) has set the executor's _shutdown and put None, the signal
\* to leave, behind the work items.
ShutDown == pc \in {"shutdown", "returned", "raised"}

\* The queue holds None: shutdown has put it, and no worker has it in hand.
NoneQueued == ShutDown /\ leaving = 0

\* Workers at the top of the loop of _worker, about to call get_nowait().
Polling ==
  threads - exited - leaving - blocked - seenEmpty - Cardinality(held)
    - Cardinality(Running)

PoolLeftRunning == QueueEmpty

\* shutdown(wait=True) has joined every worker thread.
PoolIdle == exited = threads
WaiterInstalled == pc \in {"loop", "cancel"}

RECURSIVE Without(_, _)
Without(seq, e) ==
  IF seq = <<>> THEN <<>>
  ELSE IF Head(seq) = e THEN Without(Tail(seq), e)
  ELSE <<Head(seq)>> \o Without(Tail(seq), e)

\* Line 351: the prompt main renders for a test from one uuid4() value.
Prompt(u) == [uuid |-> u]

\* No value: a dictionary with no key, as a function of empty domain.
Empty == [g \in {} |-> 0]

\* main is not running: the sampler was called directly.
MainUnused ==
  /\ mpc = "unused"
  /\ test = 0
  /\ uuids = 0
  /\ leftover = 0
  /\ results_by_group = Empty
  /\ successes = 0
  /\ total = 0
  /\ row = <<>>
  /\ table = <<>>
  /\ inputs = <<>>
  /\ divisions = 0

\* The locals of p_of_x_given_y when the call is entered (lines 160-162), with
\* no future yet.
Locals ==
  /\ how = "running"
  /\ fstate = <<>>
  /\ result = <<>>
  /\ threads = 0
  /\ idle = 0
  /\ nextWork = 1
  /\ held = {}
  /\ seenEmpty = 0
  /\ blocked = 0
  /\ leaving = 0
  /\ exited = 0
  /\ fs = {}
  /\ snapshot = {}
  /\ waiterQ = <<>>
  /\ cancelIdx = 0
  /\ total_runs = 0
  /\ y_occurrences = 0
  /\ x_given_y_occurrences = 0
  /\ pbar_n = 0
  /\ ret = <<>>
  /\ finishOrder = <<>>
  /\ prompts = <<>>
  /\ invoked = <<>>

Entry == pc = "submit" /\ Locals

\* The sampler is not called.
SamplerUnused ==
  /\ max_runs = 0
  /\ y_occurrences_target = 0
  /\ max_workers = 1
  /\ prompt = Prompt(0)
  /\ pc = "unused"
  /\ Locals

\* One call of p_of_x_given_y: any number of runs and any target up to the
\* bounds, with a single worker or with the most workers of the model, runs and
\* workers together within MaxLoadBound.
Init ==
  /\ max_runs \in 0..MaxRunsBound
  /\ y_occurrences_target \in 0..MaxTargetBound
  /\ max_workers \in {1, MaxWorkersBound}
  /\ max_runs + max_workers <= MaxLoadBound
  /\ prompt = Prompt(1)
  /\ Entry
  /\ MainUnused

\* executor.submit(run_gemini_cli, ...), one iteration of the list
\* comprehension, first half: the future and its work item are made and the item
\* is put in the work queue.
Submit ==
  /\ pc = "submit"
  /\ Len(fstate) < max_runs
  /\ fstate' = Append(fstate, "PENDING")
  /\ result' = Append(result, NoResult)
  /\ prompts' = Append(prompts, prompt)
  /\ invoked' = Append(invoked, 0)
  /\ pc' = "adjust"
  /\ UNCHANGED <<params, mainvars, workers, how, threads, idle, nextWork, fs, snapshot,
                 waiterQ, cancelIdx, counters, pbar_n, ret, finishOrder>>

\* Second half, _adjust_thread_count: it first tries to take one unit of the
\* idle semaphore and spawns nothing when it gets one; otherwise it spawns a
\* worker thread while the executor has fewer than max_workers.
SpawnedThreadsUnbounded == threads + 1

SpawnedThreads ==
  IF idle > 0 THEN threads
  ELSE IF threads < max_workers THEN threads + 1 ELSE threads

IdleAfterSubmit == IF idle > 0 THEN idle - 1 ELSE idle

AdjustThreadCount ==
  /\ pc = "adjust"
  /\ threads' = SpawnedThreads
  /\ idle' = IdleAfterSubmit
  /\ pc' = "submit"
  /\ UNCHANGED <<params, mainvars, trials, workers, how, fstate, result, nextWork, fs,
                 snapshot, waiterQ, cancelIdx, counters, pbar_n, ret, finishOrder>>

\* The loop of a worker thread (_worker).  At the top of the loop the worker
\* calls work_queue.get_nowait().  When the queue holds a work item the worker
\* takes its head.
ThreadAvailable == Polling > 0

TakeWork ==
  /\ ThreadAvailable
  /\ ~QueueEmpty
  /\ held' = held \cup {nextWork}
  /\ nextWork' = nextWork + 1
  /\ UNCHANGED <<params, mainvars, trials, pc, how, fstate, result, threads, idle,
                 seenEmpty, blocked, leaving, exited, fs, snapshot, waiterQ,
                 cancelIdx, counters, pbar_n, ret, finishOrder>>

\* get_nowait() raises queue.Empty: the queue holds nothing, neither a work
\* item nor None (before shutdown, or after it while a worker that got None has
\* not yet put it back).
FindEmpty ==
  /\ ThreadAvailable
  /\ QueueEmpty
  /\ ~NoneQueued
  /\ seenEmpty' = seenEmpty + 1
  /\ UNCHANGED <<params, mainvars, trials, pc, how, fstate, result, threads, idle,
                 nextWork, held, blocked, leaving, exited, fs, snapshot, waiterQ,
                 cancelIdx, counters, pbar_n, ret, finishOrder>>

\* The worker that found the queue empty releases one unit of the idle semaphore
\* and goes on to work_queue.get(block=True).  This is the only release: a
\* worker that finds a work item after the one it ran releases nothing.
ReleaseIdle ==
  /\ seenEmpty > 0
  /\ idle' = idle + 1
  /\ seenEmpty' = seenEmpty - 1
  /\ blocked' = blocked + 1
  /\ UNCHANGED <<params, mainvars, trials, pc, how, fstate, result, threads,
                 nextWork, held, leaving, exited, fs, snapshot, waiterQ, cancelIdx,
                 counters, pbar_n, ret, finishOrder>>

\* work_queue.get(block=True) returns the head of the queue to a waiting worker.
TakeWorkBlocked ==
  /\ blocked > 0
  /\ ~QueueEmpty
  /\ held' = held \cup {nextWork}
  /\ nextWork' = nextWork + 1
  /\ blocked' = blocked - 1
  /\ UNCHANGED <<params, mainvars, trials, pc, how, fstate, result, threads, idle,
                 seenEmpty, leaving, exited, fs, snapshot, waiterQ, cancelIdx,
                 counters, pbar_n, ret, finishOrder>>

\* get_nowait() returns None, which shutdown put behind the work items: the
\* queue holds no None until this worker puts it back.
GetNone ==
  /\ ThreadAvailable
  /\ QueueEmpty
  /\ NoneQueued
  /\ leaving' = leaving + 1
  /\ UNCHANGED <<params, mainvars, trials, pc, how, fstate, result, threads, idle,
                 nextWork, held, seenEmpty, blocked, exited, fs, snapshot, waiterQ,
                 cancelIdx, counters, pbar_n, ret, finishOrder>>

\* work_queue.get(block=True) returns None to a waiting worker.
GetNoneBlocked ==
  /\ blocked > 0
  /\ QueueEmpty
  /\ NoneQueued
  /\ blocked' = blocked - 1
  /\ leaving' = leaving + 1
  /\ UNCHANGED <<params, mainvars, trials, pc, how, fstate, result, threads, idle,
                 nextWork, held, seenEmpty, exited, fs, snapshot, waiterQ,
                 cancelIdx, counters, pbar_n, ret, finishOrder>>

\* The worker that got None finds the executor shut down: it puts None back in
\* the queue for the other workers and returns.
ExitWorker ==
  /\ leaving > 0
  /\ leaving' = leaving - 1
  /\ exited' = exited + 1
  /\ UNCHANGED <<params, mainvars, trials, pc, how, fstate, result, threads, idle,
                 nextWork, held, seenEmpty, blocked, fs, snapshot, waiterQ,
                 cancelIdx, counters, pbar_n, ret, finishOrder>>

\* The worker runs the item it took (_WorkItem.run), which begins with
\* set_running_or_notify_cancel: a future cancelled meanwhile is skipped and
\* marked notified, any other starts running run_gemini_cli.  Workers that hold
\* an item each reach this step in their own time, in any order.
StartedStateIgnoringCancel(s) == "RUNNING"

StartedState(s) == IF s = "CANCELLED" THEN "CANCELLED_AND_NOTIFIED" ELSE "RUNNING"

StartTrial(i) ==
  /\ i \in held
  /\ held' = held \ {i}
  /\ fstate' = [fstate EXCEPT ![i] = StartedState(fstate[i])]
  /\ waiterQ' = IF WaiterInstalled /\ fstate[i] = "CANCELLED"
                THEN Append(waiterQ, i) ELSE waiterQ
  /\ UNCHANGED <<params, mainvars, trials, pc, how, result, threads, idle, nextWork,
                 seenEmpty, blocked, leaving, exited, fs, snapshot, cancelIdx,
                 counters, pbar_n, ret, finishOrder>>

\* run_gemini_cli ends in the worker: it returns the parsed summary, returns None
\* (CalledProcessError, FileNotFoundError, JSONDecodeError, TimeoutExpired) or
\* raises (any other exception, e.g. UnicodeDecodeError or PermissionError).
\* The future is set FINISHED and the as_completed waiter, if any, is notified;
\* the worker goes back to the top of its loop.
\* Once the consuming loop has been left no one reads the result any more, and
\* the model does not keep it.
LoopCanRead == pc \in {"submit", "adjust", "loop"}

\* Line 101: the trial calls subprocess.run.  run_gemini_cli has one call and no
\* loop around it.
CanInvokeAgain(i) == i \in Running

CanInvoke(i) == i \in Running /\ invoked[i] = 0

InvokeCLI(i) ==
  /\ CanInvoke(i)
  /\ invoked' = [invoked EXCEPT ![i] = invoked[i] + 1]
  /\ UNCHANGED <<params, mainvars, workers, idle, prompts, pc, how, fstate, result, threads,
                 nextWork, fs, snapshot, waiterQ, cancelIdx, counters, pbar_n, ret,
                 finishOrder>>

\* What a trial can end with: before subprocess.run is called it can only raise
\* (os.makedirs, line 87); a summary or None comes after the call.
CanEndWith(i, out) == invoked[i] >= 1 \/ out.kind = "exception"

FinishTrialCounting(i, out) ==
  /\ i \in Running
  /\ CanEndWith(i, out)
  /\ fstate' = [fstate EXCEPT ![i] = "FINISHED"]
  /\ result' = IF LoopCanRead THEN [result EXCEPT ![i] = out] ELSE result
  /\ finishOrder' = IF LoopCanRead THEN Append(finishOrder, i) ELSE finishOrder
  /\ waiterQ' = IF WaiterInstalled THEN Append(waiterQ, i) ELSE waiterQ
  /\ total_runs' = total_runs + 1
  /\ UNCHANGED <<params, mainvars, trials, workers, pc, how, threads, idle, nextWork, fs,
                 snapshot, cancelIdx, y_occurrences, x_given_y_occurrences, pbar_n,
                 ret>>

FinishTrial(i, out) ==
  /\ i \in Running
  /\ CanEndWith(i, out)
  /\ fstate' = [fstate EXCEPT ![i] = "FINISHED"]
  /\ result' = IF LoopCanRead THEN [result EXCEPT ![i] = out] ELSE result
  /\ finishOrder' = IF LoopCanRead THEN Append(finishOrder, i) ELSE finishOrder
  /\ waiterQ' = IF WaiterInstalled THEN Append(waiterQ, i) ELSE waiterQ
  /\ UNCHANGED <<params, mainvars, trials, workers, pc, how, threads, idle, nextWork, fs,
                 snapshot, cancelIdx, counters, pbar_n, ret>>

\* as_completed(futures) starts (first next() of the generator): the futures
\* already finished are collected in a set, the waiter is installed on the rest.
AsCompletedStart ==
  /\ pc = "submit"
  /\ Len(fstate) = max_runs
  /\ snapshot' = {i \in 1..Len(fstate) : fstate[i] \in {"CANCELLED_AND_NOTIFIED", "FINISHED"}}
  /\ fs' = 1..Len(fstate)
  /\ pc' = "loop"
  /\ UNCHANGED <<params, mainvars, trials, workers, idle, how, fstate, result, threads, nextWork, waiterQ,
                 cancelIdx, counters, pbar_n, ret, finishOrder>>

\* The futures as_completed may yield next: those of the initial set first, in
\* the set's (unspecified) order, then the waiter's list in finishing order.
NextCompletedInSubmissionOrder ==
  {i \in fs : fstate[i] = "FINISHED" /\ \A j \in fs : i <= j}

NextCompleted ==
  IF snapshot # {} THEN snapshot
  ELSE IF waiterQ # <<>> THEN {Head(waiterQ)} ELSE {}

\* Line 176: the early-stop test, made on the counters before the yielded future
\* is looked at.
EarlyStopOffByOne == y_occurrences > y_occurrences_target

EarlyStop == y_occurrences >= y_occurrences_target

\* Lines 183-197 on one outcome.
ReproCount(out) == get_json_path_value(out.doc, y_path, Num(0))
CorrectionCount(out) == get_json_path_value(out.doc, x_path, Num(0))

\* Line 188 is reached: future.result() did not raise.
CountsRunOnNoneOnly(out) == out.kind = "none"

CountsRun(out) == out.kind # "exception"
\* Line 194 is reached.
ObservesY(out) == out.kind = "doc" /\ GreaterThanZero(ReproCount(out))
\* Line 197 is reached.
ObservesXOutsideY(out) == out.kind = "doc" /\ GreaterThanZero(CorrectionCount(out))

ObservesX(out) == ObservesY(out) /\ GreaterThanZero(CorrectionCount(out))
\* "> 0" at line 193 or line 196 raises TypeError.
UncaughtErrorIn(out) ==
  \/ out.kind = "exception"
  \/ /\ out.kind = "doc"
     /\ \/ ~IsNumber(ReproCount(out))
        \/ GreaterThanZero(ReproCount(out)) /\ ~IsNumber(CorrectionCount(out))

TypeErrorIn(out) ==
  /\ out.kind = "doc"
  /\ \/ ~IsNumber(ReproCount(out))
     \/ GreaterThanZero(ReproCount(out)) /\ ~IsNumber(CorrectionCount(out))

\* One iteration of "for future in as_completed(futures)" that passes the
\* early-stop test: the yielded future is classified (lines 183-197).
Classify(i) ==
  /\ pc = "loop"
  /\ i \in NextCompleted
  /\ ~EarlyStop
  /\ ~TypeErrorIn(result[i])
  /\ fs' = fs \ {i}
  /\ snapshot' = snapshot \ {i}
  /\ waiterQ' = Without(waiterQ, i)
  /\ finishOrder' = Without(finishOrder, i)
  /\ result' = [result EXCEPT ![i] = NoResult]
  /\ pbar_n' = pbar_n + 1
  /\ total_runs' = IF CountsRun(result[i]) THEN total_runs + 1 ELSE total_runs
  /\ y_occurrences' = IF ObservesY(result[i]) THEN y_occurrences + 1 ELSE y_occurrences
  /\ x_given_y_occurrences' = IF ObservesX(result[i]) THEN x_given_y_occurrences + 1
                              ELSE x_given_y_occurrences
  /\ UNCHANGED <<params, mainvars, trials, workers, idle, pc, how, fstate, threads, nextWork, cancelIdx, ret>>

\* The same iteration on a summary whose value at y_path, or at x_path once Y is
\* observed, is not a number: "> 0" raises TypeError, which nothing catches.  The
\* loop is left by the exception; leaving the with-block shuts the executor down.
ClassifyTypeError(i) ==
  /\ pc = "loop"
  /\ i \in NextCompleted
  /\ ~EarlyStop
  /\ TypeErrorIn(result[i])
  /\ fs' = {}
  /\ snapshot' = {}
  /\ waiterQ' = <<>>
  /\ finishOrder' = <<>>
  /\ result' = [j \in 1..Len(result) |-> NoResult]
  /\ pbar_n' = pbar_n + 1
  /\ total_runs' = total_runs + 1
  /\ y_occurrences' = IF ObservesY(result[i]) THEN y_occurrences + 1 ELSE y_occurrences
  /\ pc' = "shutdown"
  /\ how' = "TypeError"
  /\ UNCHANGED <<params, mainvars, trials, workers, idle, fstate, threads, nextWork, cancelIdx, x_given_y_occurrences, ret>>

\* One iteration that fails the early-stop test (lines 176-177): the yielded
\* future is dropped and the cancel loop begins.
StopEarly(i) ==
  /\ pc = "loop"
  /\ i \in NextCompleted
  /\ EarlyStop
  /\ snapshot' = snapshot \ {i}
  /\ waiterQ' = Without(waiterQ, i)
  /\ fs' = fs \ {i}
  /\ finishOrder' = <<>>
  /\ result' = [j \in 1..Len(result) |-> NoResult]
  /\ pbar_n' = max_runs
  /\ pc' = "cancel"
  /\ cancelIdx' = 1
  /\ UNCHANGED <<params, mainvars, trials, workers, idle, how, fstate, threads, nextWork, counters, ret>>

\* Lines 178-180, one future of "for f in futures": cancel() succeeds on a
\* future still PENDING and does nothing to a running or finished one.
CancelledState(s) == IF s = "PENDING" THEN "CANCELLED" ELSE s

CancelStep ==
  /\ pc = "cancel"
  /\ cancelIdx <= max_runs
  /\ fstate' = [fstate EXCEPT ![cancelIdx] = CancelledState(fstate[cancelIdx])]
  /\ cancelIdx' = cancelIdx + 1
  /\ UNCHANGED <<params, mainvars, trials, workers, idle, pc, how, result, threads, nextWork, fs, snapshot, waiterQ,
                 counters, pbar_n, ret, finishOrder>>

\* Line 181: break.  The generator is closed (its waiter removed), and leaving
\* the with-block shuts the executor down, waiting for its workers.
Break ==
  /\ pc = "cancel"
  /\ cancelIdx > max_runs
  /\ pc' = "shutdown"
  /\ how' = "break"
  /\ fs' = {}
  /\ snapshot' = {}
  /\ waiterQ' = <<>>
  /\ UNCHANGED <<params, mainvars, trials, workers, idle, fstate, result, threads, nextWork, cancelIdx,
                 counters, pbar_n, ret, finishOrder>>

\* as_completed is exhausted: every future has been yielded.
LoopExhausted ==
  /\ pc = "loop"
  /\ fs = {}
  /\ pc' = "shutdown"
  /\ how' = "exhausted"
  /\ UNCHANGED <<params, mainvars, trials, workers, idle, fstate, result, threads, nextWork, fs, snapshot, waiterQ,
                 cancelIdx, counters, pbar_n, ret, finishOrder>>

\* ThreadPoolExecutor.__exit__ (shutdown(wait=True)) is over: every worker has
\* been joined.  Lines 199-203 return the dictionary.
ReturnedCounts ==
  [successes |-> x_given_y_occurrences, total |-> y_occurrences, runs |-> total_runs]

Return ==
  /\ pc = "shutdown"
  /\ how # "TypeError"
  /\ PoolIdle
  /\ pc' = "returned"
  /\ ret' = <<ReturnedCounts>>
  /\ UNCHANGED <<params, mainvars, trials, workers, idle, how, fstate, result, threads, nextWork, fs, snapshot, waiterQ,
                 cancelIdx, counters, pbar_n, finishOrder>>

\* The TypeError of line 193 or 196 leaves p_of_x_given_y once the executor has
\* been shut down: nothing is returned.
PropagateTypeError ==
  /\ pc = "shutdown"
  /\ how = "TypeError"
  /\ PoolIdle
  /\ pc' = "raised"
  /\ UNCHANGED <<params, mainvars, trials, workers, idle, how, fstate, result, threads, nextWork, fs, snapshot, waiterQ,
                 cancelIdx, counters, pbar_n, ret, finishOrder>>

Orchestrator ==
  \/ Submit
  \/ AdjustThreadCount
  \/ AsCompletedStart
  \/ \E i \in 1..MaxRunsBound : Classify(i)
  \/ \E i \in 1..MaxRunsBound : ClassifyTypeError(i)
  \/ \E i \in 1..MaxRunsBound : StopEarly(i)
  \/ CancelStep
  \/ Break
  \/ LoopExhausted
  \/ Return
  \/ PropagateTypeError

\* The steps of the pool's workers around the work items.
Pool ==
  \/ TakeWork
  \/ FindEmpty
  \/ ReleaseIdle
  \/ TakeWorkBlocked
  \/ GetNone
  \/ GetNoneBlocked
  \/ ExitWorker
  \/ \E i \in 1..MaxRunsBound : StartTrial(i)

Worker ==
  \/ Pool
  \/ \E i \in 1..MaxRunsBound : InvokeCLI(i)
  \/ \E i \in 1..MaxRunsBound, out \in Outcomes : FinishTrial(i, out)

Next == Orchestrator \/ Worker

Spec == Init /\ [][Next]_vars

----------------------------------------------------------------------------
\* Properties of the sampler.

Cancelled(s) == s \in {"CANCELLED", "CANCELLED_AND_NOTIFIED"}
Finished == {i \in 1..Len(fstate) : fstate[i] = "FINISHED"}
Classifies(i) == Classify(i) \/ ClassifyTypeError(i)
Yields(i) == Classifies(i) \/ StopEarly(i)
TargetReached == y_occurrences >= y_occurrences_target
Ordered(c) == 0 <= c.successes /\ c.successes <= c.total /\ c.total <= c.runs
                /\ c.runs <= max_runs

\* C1: in every reachable state, and in the returned dictionary,
\* 0 <= successes <= total <= runs <= max_runs.
CountersOrdered ==
  /\ Ordered(ReturnedCounts)
  /\ (ret # <<>> => Ordered(ret[1]))

CountersOrderedWitness ==
  /\ pc = "returned"
  /\ ret[1] = [successes |-> 1, total |-> 2, runs |-> 3]

\* C2: with a target of at least 1, yObserved never exceeds the target, and a
\* call that stopped early returns total = target exactly.
EarlyStopExact ==
  y_occurrences_target >= 1 =>
    /\ y_occurrences <= y_occurrences_target
    /\ (how = "break" => y_occurrences = y_occurrences_target)
    /\ (ret # <<>> /\ how = "break" => ret[1].total = y_occurrences_target)

\* An early stop at target 2 after which every trial has finished: the one taken
\* at the stop and any still in flight were finished but not counted.
EarlyStopExactWitness ==
  /\ pc = "returned"
  /\ how = "break"
  /\ y_occurrences_target = 2
  /\ ret[1].total = 2
  /\ Cardinality(Finished) = 3

\* C3: once a classification has brought yObserved to the target (of at least
\* 1), the sampler takes no further completion from the pool before it cancels.
StopsWithoutFurtherCompletion ==
  [][y_occurrences_target >= 1 /\ TargetReached =>
       \A i \in 1..MaxRunsBound : ~Yields(i)]_vars

\* C4: once yObserved >= target, runs, yObserved and xGivenYObserved never
\* change again, and the dictionary returned holds those values.
FrozenAfterTarget ==
  [][TargetReached => /\ counters' = counters
                      /\ (ret' # <<>> => ret'[1] = ReturnedCounts)]_vars

\* The target (at least 1) is reached, a completion has been taken and dropped,
\* the cancel loop is under way and a trial is still running.
FrozenAfterTargetWitness ==
  /\ pc = "cancel"
  /\ y_occurrences_target >= 1
  /\ y_occurrences = y_occurrences_target
  /\ Running # {}

\* C5: consuming a trial that failed (it returned None or raised) leaves the
\* sampler in its loop, and yObserved and xGivenYObserved unchanged.
Failed(out) == out.kind \in {"exception", "none"}

FailureIsAbsorbed ==
  [][\A i \in 1..MaxRunsBound :
       Yields(i) /\ ~TargetReached /\ Failed(result[i]) =>
         /\ pc' = "loop"
         /\ y_occurrences' = y_occurrences
         /\ x_given_y_occurrences' = x_given_y_occurrences]_vars

\* All three trials were consumed, one of them raised; the call returned counts.
FailureIsAbsorbedWitness ==
  /\ pc = "returned"
  /\ how = "exhausted"
  /\ max_runs = 3
  /\ ret[1].runs = 2
  /\ ret[1].total = 1

\* C6: every trial consumed before early stop raises runs by one, so a call
\* that consumed all max_runs trials returns runs = max_runs.
EveryConsumedTrialCounted ==
  pc = "returned" /\ how = "exhausted" => ret[1].runs = max_runs

\* C7: the call ends only by returning, after an early stop or after all
\* max_runs trials were consumed.
ReturnsOneOfTwoWays ==
  \/ pc = "returned" /\ how \in {"break", "exhausted"}
  \/ ENABLED Next

\* C8 as claimed: once early stop is triggered, no trial that has not started
\* begins execution.
NoStartAfterEarlyStop ==
  [][pc = "cancel" \/ how = "break" =>
       \A i \in 1..Len(fstate) : fstate[i] = "PENDING" => fstate'[i] # "RUNNING"]_vars

\* C8 as amended: a trial the cancel loop finds not started is cancelled and
\* never begins execution, and after the loop no trial is left waiting to start.
CancelledNeverStarts ==
  /\ [][\A i \in 1..Len(fstate) : Cancelled(fstate[i]) => Cancelled(fstate'[i])]_vars
  /\ [](how = "break" => \A i \in 1..Len(fstate) : fstate[i] # "PENDING")

\* The call returned after an early stop in which trial 2 was cancelled and
\* trial 3, started while the cancel loop was under way, ran to its end.
CancelledNeverStartsWitness ==
  /\ pc = "returned"
  /\ how = "break"
  /\ Len(fstate) = 3
  /\ fstate[2] = "CANCELLED_AND_NOTIFIED"
  /\ fstate[3] = "FINISHED"

\* C9: every trial is submitted before the first completion is consumed, and at
\* most max_workers trials run at any moment.
SubmittedUpFrontAndBounded ==
  /\ (pc \notin {"submit", "adjust"} => Len(fstate) = max_runs)
  /\ Cardinality(Running) <= max_workers

\* Both workers are busy while a third trial waits in the queue.
SubmittedUpFrontAndBoundedWitness ==
  /\ pc = "loop"
  /\ max_workers = 2
  /\ Cardinality(Running) = 2
  /\ ~QueueEmpty

\* C10 as claimed: the trial classified is the one that finished first among
\* those not yet consumed.
ConsumedInCompletionOrder ==
  [][\A i \in 1..MaxRunsBound : Classifies(i) => i = Head(finishOrder)]_vars

\* C10 as amended: a trial is consumed only once finished, and before one that
\* finished earlier only when both had finished before as_completed started.
Before(seq, j, i) ==
  \E m, n \in 1..Len(seq) : m < n /\ seq[m] = j /\ seq[n] = i

ConsumedInCompletionOrderAfterStart ==
  [][\A i \in 1..MaxRunsBound :
       Yields(i) =>
         /\ fstate[i] = "FINISHED"
         /\ \A j \in 1..MaxRunsBound :
              Before(finishOrder, j, i) => {i, j} \subseteq snapshot]_vars

\* Trial 2 has been classified while trial 1, submitted before it, still runs.
ConsumedInCompletionOrderAfterStartWitness ==
  /\ pc = "loop"
  /\ Len(fstate) >= 2
  /\ fstate[1] = "RUNNING"
  /\ fstate[2] = "FINISHED"
  /\ 2 \notin fs
  /\ total_runs = 1

----------------------------------------------------------------------------
\* C11: no two distinct trials of one call of the sampler are dispatched with
\* an identical prompt.  The code gives every executor.submit of lines 165-170
\* the one string it received as argument.
DistinctPromptPerTrial ==
  \A i, j \in 1..Len(prompts) : i # j => prompts[i] # prompts[j]

RECURSIVE SumSeq(_)
SumSeq(seq) == IF seq = <<>> THEN 0 ELSE Head(seq) + SumSeq(Tail(seq))

\* C12: the external process is invoked at most once per trial and at most
\* max_runs times per call of the sampler, and a trial that has finished, failed
\* or not, is never run again.
NoRetry ==
  /\ [](/\ Len(fstate) <= max_runs
        /\ \A i \in 1..Len(invoked) : invoked[i] <= 1
        /\ SumSeq(invoked) <= max_runs)
  /\ [][\A i \in 1..Len(fstate) :
          fstate[i] = "FINISHED" =>
            fstate'[i] = "FINISHED" /\ invoked'[i] = invoked[i]]_vars

\* Two trials were invoked once each, one of them raised, and the call returned.
NoRetryWitness ==
  /\ pc = "returned"
  /\ invoked = <<1, 1>>
  /\ total_runs = 1

----------------------------------------------------------------------------
\* The classification of one summary, over a wider set of summaries than Docs:
\* for each path no match, a negative, zero or positive number, two matches, or
\* a value that is not a number.  Every list of matches at x_path goes with the
\* positive value at y_path, the one with which line 195 reads x_path; with the
\* other values at y_path go no match and a positive number at x_path.
ClassifyRunsBound == 2

Matches ==
  { <<>>, <<Num(0 - 1)>>, <<Num(0)>>, <<Num(2)>>, <<Num(0), Num(1)>>, <<NonNum>> }

WideDocs ==
  {Doc(ym, xm) : ym \in {<<Num(2)>>}, xm \in Matches}
    \cup {Doc(ym, xm) : ym \in Matches, xm \in {<<>>, <<Num(2)>>}}
WideOutcomes == {Raised, ReturnedNone} \cup {Returned(d) : d \in WideDocs}

\* The target is 1, or the largest of the model.
InitClassify ==
  /\ max_runs = ClassifyRunsBound
  /\ y_occurrences_target \in {1, MaxTargetBound}
  /\ max_workers = 1
  /\ prompt = Prompt(1)
  /\ Entry
  /\ MainUnused

WorkerClassify ==
  \/ Pool
  \/ \E i \in 1..MaxRunsBound : InvokeCLI(i)
  \/ \E i \in 1..MaxRunsBound, out \in WideOutcomes : FinishTrial(i, out)

NextClassify == Orchestrator \/ WorkerClassify

ClassifySpec == InitClassify /\ [][NextClassify]_vars

\* What a path's list of matches says, read off the list itself.
FirstIsPositive(m) == m # <<>> /\ m[1].t = "num" /\ m[1].n > 0
Numeric(m) == m = <<>> \/ m[1].t = "num"

\* C13: a trial whose summary was read counts as Y-observed exactly when the
\* value at y_path is greater than zero, and as X-given-Y exactly when it is
\* Y-observed and the value at x_path is greater than zero; a path that matches
\* nothing counts as zero: not observed, and no error.  (Values that are not
\* numbers are left aside here.)
ObservedIffPositive ==
  [][\A i \in 1..MaxRunsBound :
       Classifies(i) /\ result[i].kind = "doc" =>
         LET ym == result[i].doc[y_path]
             xm == result[i].doc[x_path]
         IN  /\ Numeric(ym) =>
                   /\ y_occurrences' = y_occurrences + (IF FirstIsPositive(ym) THEN 1 ELSE 0)
                   /\ FirstIsPositive(ym) \/ x_given_y_occurrences' = x_given_y_occurrences
             /\ Numeric(ym) /\ Numeric(xm) =>
                   /\ x_given_y_occurrences' = x_given_y_occurrences +
                        (IF FirstIsPositive(ym) /\ FirstIsPositive(xm) THEN 1 ELSE 0)
                   /\ pc' = "loop"
                   /\ total_runs' = total_runs + 1]_vars

\* One trial was Y-observed without X, and the summary classified next has no
\* match for y_path.
ObservedIffPositiveWitness ==
  /\ pc = "loop"
  /\ total_runs = 1
  /\ y_occurrences = 1
  /\ x_given_y_occurrences = 0
  /\ ~EarlyStop
  /\ \E i \in NextCompleted :
        result[i].kind = "doc" /\ result[i].doc[y_path] = <<>>

----------------------------------------------------------------------------
\* _format_row_data (lines 206-233) and print_results_table (lines 236-289).
\* A ratio is kept exact, as a numerator over a positive denominator.
MaxCount == 5

Ratio(a, b) == [num |-> a, den |-> b]

safe_divide(numerator, denominator) ==
  IF denominator # 0 THEN Ratio(numerator, denominator) ELSE Ratio(0, 1)

\* "rate > a/b" of line 226.
Exceeds(rate, a, b) == rate.num * b > a * rate.den

StyleOf(rate) ==
  IF Exceeds(rate, 8, 10) THEN "green"
  ELSE IF Exceeds(rate, 5, 10) THEN "yellow" ELSE "red"

RECURSIVE GCD(_, _)
GCD(a, b) == IF b = 0 THEN a ELSE GCD(b, a % b)

RECURSIVE IsPowerOfTwo(_)
IsPowerOfTwo(n) == n = 1 \/ (n > 1 /\ n % 2 = 0 /\ IsPowerOfTwo(n \div 2))

\* The float that safe_divide returns is the ratio itself exactly when the
\* ratio, in lowest terms, has a power of two as denominator.
ExactInBinary(rate) == IsPowerOfTwo(rate.den \div GCD(rate.num, rate.den))

\* f"{rate:.2%}": the float rate is multiplied by 100 in binary floating point
\* and the product is rounded to two decimals, a tie to the even digit.  The
\* value is the set of the texts, in hundredths of a percent, that this can
\* give.  Off a tie the rounding error of the product is too small to matter.
\* On a tie the product is exact when the rate is, and half-even decides;
\* otherwise the product lies a rounding error beside the tie, on a side the
\* model does not compute (23/160 prints 14.37%, 49/160 prints 30.63%).
HundredthsOfPercent(rate) ==
  LET scaled == 10000 * rate.num
      q == scaled \div rate.den
      rest == scaled % rate.den
  IN  IF 2 * rest < rate.den THEN {q}
      ELSE IF 2 * rest > rate.den THEN {q + 1}
      ELSE IF ExactInBinary(rate) THEN {q + (q % 2)}
      ELSE {q, q + 1}

NotApplicable == [text |-> "N/A"]

\* proportion_confint(count, nobs, method='wilson') with the default alpha of
\* 0.05.  With z the normal quantile the bounds are
\*     (count/nobs + z*z/(2 nobs) -/+ z sqrt(q(1-q)/nobs + z*z/(4 nobs^2)))
\*        / (1 + z*z/nobs),
\* that is (c -/+ sqrt(r/nobs)) / q for the integers c, q and r of WilsonAt,
\* where z*z is the ratio zn/zd.  The library's z*z, 3.8414588..., is no ratio
\* of integers: the model encloses it between 242/63 (3.8412698...) and 315/82
\* (3.8414634...) and keeps, for each bound, the least and the most it can be
\* over that enclosure (the interval widens as z grows).  The library evaluates
\* the formula in binary floating point and does not clip the result: the value
\* it returns is the exact one or a float next to it.
ZSquaredLowNum == 242
ZSquaredLowDen == 63
ZSquaredHighNum == 315
ZSquaredHighDen == 82
Ulps == {0 - 1, 0, 1}

WilsonAt(count, nobs, side, zn, zd) ==
  [c |-> 2 * count * zd + zn,
   q |-> 2 * (zd * nobs + zn),
   r |-> zn * (4 * zd * count * (nobs - count) + zn * nobs),
   n |-> nobs,
   side |-> side]

WilsonBound(count, nobs, side) ==
  LET narrow == WilsonAt(count, nobs, side, ZSquaredLowNum, ZSquaredLowDen)
      wide == WilsonAt(count, nobs, side, ZSquaredHighNum, ZSquaredHighDen)
  IN  IF side < 0 THEN [least |-> wide, most |-> narrow]
      ELSE [least |-> narrow, most |-> wide]

proportion_confint(count, nobs) ==
  <<WilsonBound(count, nobs, 0 - 1), WilsonBound(count, nobs, 1)>>

\* Lines 220-233.  The interval is kept as the two bounds; their rendering with
\* one decimal (line 231) is not modelled.
format_row_data_unguarded(successes_, total_) ==
  LET rate == safe_divide(successes_, total_)
      ci == proportion_confint(successes_, total_)
  IN  <<[style |-> StyleOf(rate), text |-> HundredthsOfPercent(rate)],
        [lower |-> ci[1], upper |-> ci[2]]>>

format_row_data(successes_, total_) ==
  IF total_ = 0 THEN <<NotApplicable, NotApplicable>>
  ELSE LET rate == safe_divide(successes_, total_)
           ci == proportion_confint(successes_, total_)
       IN  <<[style |-> StyleOf(rate), text |-> HundredthsOfPercent(rate)],
             [lower |-> ci[1], upper |-> ci[2]]>>

\* The divisions _format_row_data makes itself: the one of line 223, through
\* safe_divide, reached only past the return of line 221.
RowDivisions(total_) == IF total_ = 0 THEN 0 ELSE 1

\* The one group of eval_groups (line 313).  A test is named by its position in
\* the group's list, standing for its wrong_tool_name.
GroupName == "Tool Calling Self-Correction"

\* table.add_row of lines 275 and 287: the cells of one row, and whether the row
\* has the group's style.
Row(name, is_group, successes_, total_) ==
  LET cells == format_row_data(successes_, total_)
  IN  [name |-> name, group_style |-> is_group, successes |-> successes_,
       total |-> total_, rate |-> cells[1], interval |-> cells[2]]

\* Lines 264-287: the rows added for the group, its aggregate row first and
\* then one row for each test, in the order of data['tests'].
TableRows(rbg) ==
  IF DOMAIN rbg = {} THEN <<>>
  ELSE LET data == rbg[GroupName]
       IN  <<Row(GroupName, TRUE, data.total_successes, data.total_trials)>>
           \o [i \in 1..Len(data.tests) |->
                 Row(data.tests[i][1], FALSE, data.tests[i][2], data.tests[i][3])]

NoResults == [text |-> "No results to display."]

print_results_table(rbg) ==
  IF DOMAIN rbg = {} THEN NoResults ELSE [rows |-> TableRows(rbg)]

RECURSIVE DivisionsIn(_)
DivisionsIn(rows) ==
  IF rows = <<>> THEN 0
  ELSE RowDivisions(Head(rows).total) + DivisionsIn(Tail(rows))

\* Line 387 as a step: the table is printed, _format_row_data having been called
\* once for each of its rows, the last row's call being the latest.
PrintsTable ==
  LET rows == TableRows(results_by_group)
  IN  /\ table' = <<print_results_table(results_by_group)>>
      /\ divisions' = divisions + DivisionsIn(rows)
      /\ IF rows = <<>>
         THEN UNCHANGED <<successes, total, row>>
         ELSE /\ successes' = rows[Len(rows)].successes
              /\ total' = rows[Len(rows)].total
              /\ row' = << <<rows[Len(rows)].rate, rows[Len(rows)].interval>> >>

samplervars ==
  <<params, pc, how, fstate, result, threads, idle, nextWork, workers, fs, snapshot,
    waiterQ,
    cancelIdx, counters, pbar_n, ret, finishOrder, trials>>

----------------------------------------------------------------------------
\* main's aggregator as a function of the results it is given: the new
\* defaultdict of line 341, the fold of lines 376-385 applied to one given
\* result after another, and the table of line 387.  The calls of
\* p_of_x_given_y that produce the results (lines 344-367) are no part of this
\* specification: they are steps of MainSpec.  Here test counts the results
\* folded so far.
MaxObserved == 3
MaxTests == 2

\* The dictionaries p_of_x_given_y can return (lines 199-203).
SamplerResults ==
  {r \in [successes : 0..MaxObserved, total : 0..MaxObserved, runs : 0..MaxObserved] :
     r.successes <= r.total /\ r.total <= r.runs}

RECURSIVE SeqsUpTo(_, _)
SeqsUpTo(S, n) ==
  IF n = 0 THEN {<<>>}
  ELSE LET shorter == SeqsUpTo(S, n - 1)
       IN  shorter \cup {Append(q, e) : q \in shorter, e \in S}

\* Line 341: a new defaultdict, and what its factory makes for a missing key.
FreshResults == Empty

DefaultGroup == [total_successes |-> 0, total_trials |-> 0, tests |-> <<>>]

\* Lines 376-385: the fold of one test's result into its group.
FoldedOverwriting(rbg, group, eval_name, res) ==
  [g \in DOMAIN rbg \cup {group} |->
     IF g = group
     THEN [total_successes |-> res.successes,
           total_trials |-> res.total,
           tests |-> <<<<eval_name, res.successes, res.total>>>>]
     ELSE rbg[g]]

Folded(rbg, group, eval_name, res) ==
  LET group_data == IF group \in DOMAIN rbg THEN rbg[group] ELSE DefaultGroup
  IN  [g \in DOMAIN rbg \cup {group} |->
         IF g = group
         THEN [total_successes |-> group_data.total_successes + res.successes,
               total_trials |-> group_data.total_trials + res.total,
               tests |-> Append(group_data.tests,
                                <<eval_name, res.successes, res.total>>)]
         ELSE rbg[g]]

InitFold ==
  /\ SamplerUnused
  /\ mpc = "start"
  /\ test = 0
  /\ uuids = 0
  /\ leftover = 0
  /\ results_by_group = Empty
  /\ successes = 0
  /\ total = 0
  /\ row = <<>>
  /\ table = <<>>
  /\ inputs \in SeqsUpTo(SamplerResults, MaxTests)
  /\ divisions = 0

\* Line 341: the aggregator is made.
FoldStart ==
  /\ mpc = "start"
  /\ results_by_group' = FreshResults
  /\ test' = 0
  /\ mpc' = "tests"
  /\ UNCHANGED <<samplervars, uuids, leftover, successes, total, row, table, inputs,
                 divisions>>

\* Lines 376-385 on the next given result.
FoldInput ==
  /\ mpc = "tests"
  /\ test < Len(inputs)
  /\ test' = test + 1
  /\ results_by_group' = Folded(results_by_group, GroupName, test + 1, inputs[test + 1])
  /\ UNCHANGED <<samplervars, mpc, uuids, leftover, successes, total, row, table,
                 inputs, divisions>>

\* Line 387: every given result is folded and the table is printed.
FoldEnd ==
  /\ mpc = "tests"
  /\ test = Len(inputs)
  /\ mpc' = "done"
  /\ PrintsTable
  /\ UNCHANGED <<samplervars, test, uuids, leftover, results_by_group, inputs>>

NextFold == FoldStart \/ FoldInput \/ FoldEnd

FoldSpec == InitFold /\ [][NextFold]_vars

\* The sums and the list the claim speaks of, computed from the inputs folded so
\* far.
RECURSIVE SumOf(_, _, _)
SumOf(seq, n, field) ==
  IF n = 0 THEN 0 ELSE SumOf(seq, n - 1, field) + seq[n][field]

EntriesOf(seq, n) == [i \in 1..n |-> <<i, seq[i].successes, seq[i].total>>]

\* The spec's example: (1,2) and then (4,5) folded into a new aggregator.
FoldedExample ==
  Folded(Folded(FreshResults, GroupName, 1, [successes |-> 1, total |-> 2, runs |-> 3]),
         GroupName, 2, [successes |-> 4, total |-> 5, runs |-> 9])

\* C14: after any number of tests folded, the group's totals are the sums of
\* the per-test entries and the per-test list has one entry per folded test, in
\* the order folded; before the first fold the group has no entry at all.
\* Folding (1,2) and (4,5) yields totals 5 and 7.
FoldSumsEntries ==
  /\ FoldedExample[GroupName] =
        [total_successes |-> 5, total_trials |-> 7,
         tests |-> << <<1, 1, 2>>, <<2, 4, 5>> >>]
  /\ mpc \in {"tests", "done"} =>
       IF test = 0 THEN results_by_group = Empty
       ELSE /\ DOMAIN results_by_group = {GroupName}
            /\ results_by_group[GroupName].total_successes = SumOf(inputs, test, "successes")
            /\ results_by_group[GroupName].total_trials = SumOf(inputs, test, "total")
            /\ results_by_group[GroupName].tests = EntriesOf(inputs, test)

\* (1,2) of 3 runs then (2,3) of 3 runs have been folded: the totals are 3 and
\* 5, and the table printed has the group's row and one row for each test.
FoldSumsEntriesWitness ==
  /\ mpc = "done"
  /\ test = 2
  /\ inputs[1] = [successes |-> 1, total |-> 2, runs |-> 3]
  /\ inputs[2] = [successes |-> 2, total |-> 3, runs |-> 3]
  /\ results_by_group[GroupName].total_successes = 3
  /\ results_by_group[GroupName].total_trials = 5
  /\ Len(results_by_group[GroupName].tests) = 2
  /\ Len(table[1].rows) = 3

----------------------------------------------------------------------------
\* _format_row_data called on given arguments, call after call.
MaxDivisions == 4

Arguments ==
  {a \in (0..MaxCount) \X (0..MaxCount) : a[1] <= a[2] \/ a[2] = 0}

InitEstimate ==
  /\ SamplerUnused
  /\ mpc = "unused"
  /\ test = 0
  /\ uuids = 0
  /\ leftover = 0
  /\ results_by_group = Empty
  /\ \E a \in Arguments : successes = a[1] /\ total = a[2]
  /\ row = <<>>
  /\ table = <<>>
  /\ inputs = <<>>
  /\ divisions = 0

\* The call returns.
FormatRow ==
  /\ row = <<>>
  /\ row' = <<format_row_data(successes, total)>>
  /\ divisions' = divisions + RowDivisions(total)
  /\ UNCHANGED <<samplervars, mpc, test, uuids, leftover, results_by_group,
                 successes, total, table, inputs>>

\* The function is called once more, on other arguments.
NextArguments ==
  /\ row # <<>>
  /\ divisions < MaxDivisions
  /\ \E a \in Arguments : successes' = a[1] /\ total' = a[2]
  /\ row' = <<>>
  /\ UNCHANGED <<samplervars, mpc, test, uuids, leftover, results_by_group,
                 table, inputs, divisions>>

NextEstimate == FormatRow \/ NextArguments

EstimateSpec == InitEstimate /\ [][NextEstimate]_vars

\* C16: with total = 0 the row is ("N/A", "N/A") whatever successes is, and no
\* division is made.
NoDataIsNotApplicable ==
  /\ [](\A s \in 0..MaxCount :
          format_row_data(s, 0) = <<NotApplicable, NotApplicable>>)
  /\ [](row # <<>> /\ total = 0 => row[1] = <<NotApplicable, NotApplicable>>)
  /\ [][row = <<>> /\ row' # <<>> /\ total = 0 => divisions' = divisions]_vars

\* A row was formatted for successes = 1 and total = 0, after calls that made
\* divisions.
NoDataIsNotApplicableWitness ==
  /\ successes = 1
  /\ total = 0
  /\ row = << <<NotApplicable, NotApplicable>> >>
  /\ divisions = 2

\* The sign of x, and the order of a bound and the ratio a/b (b > 0): -1 when
\* the bound is below a/b, 1 when above; when the exact value equals a/b the
\* float returned can be the ratio or lie a rounding error to either side of
\* it, and the value is the set of the orders possible.
Sgn(x) == IF x > 0 THEN 1 ELSE IF x < 0 THEN 0 - 1 ELSE 0

\* The order of the exact value (c -/+ sqrt(r/n)) / q and a/b.
CmpAt(at, a, b) ==
  LET d == b * at.c - a * at.q
  IN  IF at.side < 0
      THEN IF d <= 0 THEN 0 - 1
           ELSE Sgn(at.n * d * d - b * b * at.r)
      ELSE IF d >= 0 THEN 1
           ELSE Sgn(b * b * at.r - at.n * d * d)

\* The orders the returned float can have with a/b: the one order when the
\* whole enclosure lies on one side of a/b, any order when a/b is met.
Cmp(bound, a, b) ==
  IF CmpAt(bound.least, a, b) > 0 THEN {1}
  ELSE IF CmpAt(bound.most, a, b) < 0 THEN {0 - 1}
  ELSE Ulps

\* C17: for 0 <= successes <= total and total >= 1 the bounds returned satisfy
\* 0 <= lower <= successes/total <= upper <= 1.
WilsonBrackets ==
  row # <<>> /\ total >= 1 /\ successes <= total =>
    /\ \A o \in Cmp(row[1][2].lower, 0, 1) : o >= 0
    /\ \A o \in Cmp(row[1][2].lower, successes, total) : o <= 0
    /\ \A o \in Cmp(row[1][2].upper, successes, total) : o >= 0
    /\ \A o \in Cmp(row[1][2].upper, 1, 1) : o <= 0

----------------------------------------------------------------------------
RaisedByAtMostOne(c, d) == d = c \/ d = c + 1

\* C18: the counters are written by the orchestrating thread only.  Every step
\* of a worker (taking a work item or None from the queue, finding the queue
\* empty, releasing the idle semaphore, starting a trial or skipping a cancelled
\* one, calling the process, finishing with a result or a failure, leaving)
\* leaves the three counters as they are; a step that changes a counter is an
\* iteration of the orchestrator's loop classifying a completion; and no step
\* raises a counter by more than one.
CountersOrchestratorOnly ==
  [][/\ Worker => counters' = counters
     /\ counters' # counters => \E i \in 1..MaxRunsBound : Classifies(i)
     /\ RaisedByAtMostOne(total_runs, total_runs')
     /\ RaisedByAtMostOne(y_occurrences, y_occurrences')
     /\ RaisedByAtMostOne(x_given_y_occurrences, x_given_y_occurrences')]_vars

\* The loop has counted a trial, one worker runs a trial and another trial has
\* finished without being consumed yet.
CountersOrchestratorOnlyWitness ==
  /\ pc = "loop"
  /\ total_runs >= 1
  /\ y_occurrences >= 1
  /\ Running # {}
  /\ \E i \in fs : fstate[i] = "FINISHED"

----------------------------------------------------------------------------
Zeros == [successes |-> 0, total |-> 0, runs |-> 0]

\* C20: the early-stop test is made only on taking one more completion, before
\* that completion is counted.  So the cancel loop is entered only by a step
\* that takes a completed future and leaves the counters alone; with a target
\* of 0 and max_runs >= 1 the loop is left only after a trial has completed and
\* the call returns three zeros; when the last of the max_runs completions
\* brings yObserved to the target the sampler stays in its loop, to leave it
\* through the exhausted iterator and return; and when as_completed runs out,
\* the target reached or not, no future was cancelled and every trial that did
\* not raise was counted as a run.
EarlyStopOnNextCompletion ==
  /\ [][pc # "cancel" /\ pc' = "cancel" =>
          /\ EarlyStop
          /\ counters' = counters
          /\ \E i \in fs : fs' = fs \ {i} /\ fstate[i] = "FINISHED"]_vars
  /\ [][\A i \in 1..MaxRunsBound :
          Classifies(i) =>
            total_runs' = total_runs + (IF result[i].kind = "exception" THEN 0 ELSE 1)]_vars
  /\ [](y_occurrences_target <= 0 /\ max_runs >= 1 =>
          /\ pc \notin {"submit", "adjust", "loop"} => Finished # {}
          /\ pc # "raised"
          /\ pc = "returned" => how = "break" /\ ret = <<Zeros>>)
  /\ [][\A i \in 1..MaxRunsBound :
          Classifies(i) /\ pbar_n' = max_runs
            /\ y_occurrences' >= y_occurrences_target =>
              /\ pc' = "loop"
              /\ cancelIdx' = 0
              /\ how' = "running"]_vars
  /\ [](how = "exhausted" =>
          /\ cancelIdx = 0
          /\ \A i \in 1..Len(fstate) : fstate[i] = "FINISHED"
          /\ pbar_n = max_runs)
  /\ [](pc = "raised" =>
          ~(pbar_n = max_runs /\ cancelIdx = 0 /\ TargetReached))

----------------------------------------------------------------------------
\* main (lines 308-387) around the sampler: the tests of the group are sampled
\* in turn, each result is folded and the table is printed.  main asks for 30
\* observations within 100 runs (lines 364-365) for each of the six tests of
\* its group (lines 313-337); the model bounds the three: MainTargetBound
\* observations within MainRunsBound runs for each of MaxTests tests.
\* max_workers is what line 309 computes from the machine's processors: 1, or
\* more (the most workers of the model).
MainTargetBound == 1
MainRunsBound == 3

InitMain ==
  /\ max_runs = 0
  /\ y_occurrences_target = 0
  /\ max_workers \in {1, MaxWorkersBound}
  /\ prompt = Prompt(0)
  /\ pc = "unused"
  /\ Locals
  /\ mpc = "tests"
  /\ test = 0
  /\ uuids = 0
  /\ leftover = 0
  /\ results_by_group = FreshResults
  /\ successes = 0
  /\ total = 0
  /\ row = <<>>
  /\ table = <<>>
  /\ inputs = <<>>
  /\ divisions = 0

\* Trials of the pool that are queued or running.
InFlight ==
  {i \in 1..Len(fstate) : fstate[i] \in {"PENDING", "RUNNING"}}

\* Lines 344-367: the next test's prompt is rendered and p_of_x_given_y is
\* entered.  Trials an earlier call left in flight stay in flight.
MainCall ==
  /\ mpc = "tests"
  /\ test < MaxTests
  /\ test' = test + 1
  /\ uuids' = uuids + 1
  /\ prompt' = Prompt(uuids + 1)
  /\ max_runs' = MainRunsBound
  /\ y_occurrences_target' = MainTargetBound
  /\ max_workers' = max_workers
  /\ leftover' = leftover + Cardinality(InFlight)
  /\ mpc' = "call"
  /\ pc' = "submit"
  /\ how' = "running"
  /\ fstate' = <<>>
  /\ result' = <<>>
  /\ threads' = 0
  /\ idle' = 0
  /\ nextWork' = 1
  /\ held' = {}
  /\ seenEmpty' = 0
  /\ blocked' = 0
  /\ leaving' = 0
  /\ exited' = 0
  /\ fs' = {}
  /\ snapshot' = {}
  /\ waiterQ' = <<>>
  /\ cancelIdx' = 0
  /\ total_runs' = 0
  /\ y_occurrences' = 0
  /\ x_given_y_occurrences' = 0
  /\ pbar_n' = 0
  /\ ret' = <<>>
  /\ finishOrder' = <<>>
  /\ prompts' = <<>>
  /\ invoked' = <<>>
  /\ UNCHANGED <<results_by_group, successes, total, row, table, inputs, divisions>>

\* Lines 368-385: the call has returned and its result is folded.
MainFold ==
  /\ mpc = "call"
  /\ pc = "returned"
  /\ results_by_group' = Folded(results_by_group, GroupName, test, ret[1])
  /\ mpc' = "tests"
  /\ UNCHANGED <<samplervars, test, uuids, leftover, successes, total, row, table,
                 inputs, divisions>>

\* Line 387: the loops are over and the table is printed.
MainReport ==
  /\ mpc = "tests"
  /\ test = MaxTests
  /\ mpc' = "done"
  /\ PrintsTable
  /\ UNCHANGED <<samplervars, test, uuids, leftover, results_by_group, inputs>>

\* main's steps and those of the sampler it calls: the trials end with any of
\* Outcomes.
NextMain == MainCall \/ MainFold \/ MainReport \/ Next

MainSpec == InitMain /\ [][NextMain]_vars

\* C19: the sampler is left, by return or by exception, only with no trial of
\* its pool queued or running; from the early stop on the counters no longer
\* change, whatever the trials still running end with; and main enters the
\* next call with no trial of an earlier call in flight.
SamplerWaitsForPool ==
  /\ [](/\ pc \in {"returned", "raised"} => InFlight = {}
        /\ mpc \in {"tests", "done"} => InFlight = {}
        /\ leftover = 0)
  /\ [][(pc \in {"cancel", "shutdown"}) => counters' = counters]_vars

\* The call for the second test has stopped early and waits at the shutdown
\* for a trial that is still running.
SamplerWaitsForPoolWitness ==
  /\ mpc = "call"
  /\ test = 2
  /\ pc = "shutdown"
  /\ how = "break"
  /\ Running # {}
  /\ GroupName \in DOMAIN results_by_group

====
